---- MODULE Spec2Model ----
(***************************************************************************)
(* A model of allauth_2fa/views.py: the five request handlers             *)
(* (TwoFactorAuthenticate, TwoFactorSetup, TwoFactorRemove,                *)
(* TwoFactorBackupTokens, QRCodeGeneratorView) over the session and the    *)
(* one-time-password tables they read and write.                           *)
(*                                                                         *)
(* Spec     : requests handled one at a time (each action is one request). *)
(* SpecConc : two setup requests of one user whose _new_device steps       *)
(*            (delete, create) interleave.                                 *)
(* SpecURI  : the otpauth:// URI the QR code view builds, as a function of *)
(*            issuer, username, device key and digit count.                *)
(***************************************************************************)
EXTENDS Integers, Sequences, FiniteSets, TLC

VARIABLES
    session,    \* request.session per browser session: [auth, marker]
    totp,       \* rows of TOTPDevice: [id, user, confirmed]
    nextDev,    \* next primary key of TOTPDevice
    static,     \* rows of StaticDevice: [user, name]
    tokens,     \* rows of StaticToken: [id, user] (user owns the device)
    nextTok,    \* next primary key of StaticToken
    last,       \* the request handled last and its response
    prev,       \* the tables as they were before that request
    creq,       \* SpecConc: each concurrent request's position
    uri         \* SpecURI: inputs and output of the URI construction

vars == <<session, totp, nextDev, static, tokens, nextTok, last, prev, creq, uri>>

-----------------------------------------------------------------------------
(* Bounds *)

MaxDev == 4        \* TOTPDevice rows ever created in a run of Spec
MaxRegen == 3      \* backup-token regenerations in a run of Spec
MaxConcReq == 2    \* requests each concurrent worker handles in SpecConc
MaxStrLen == 2     \* length of issuer and username in SpecURI
MaxKeyLen == 3     \* bytes of a device key in SpecURI

-----------------------------------------------------------------------------
(* Users, sessions, responses *)

Users == {"alice", "bob"}
Anonymous == "AnonymousUser"
NoMarker == "no_marker"
Sessions == {"s1"}
NoOne == "nobody"

is_anonymous(user) == user = Anonymous

\* Route names and the paths requested.
SetupPath == "/two-factor/setup"
RemovePath == "/two-factor/remove"
BackupPath == "/two-factor/backup-tokens"

Response(status, location, next, template) ==
    [status |-> status, location |-> location, next |-> next,
     template |-> template]

redirect(to) == Response(302, to, "", "")
redirect_to_login(path) == Response(302, "account_login", path, "")
render(template) == Response(200, "", "", template)
Http404 == Response(404, "", "", "")
ServerError == Response(500, "", "", "")
PassOn == Response(0, "", "", "")

\* What is recorded of a request: the view and method, the session it came
\* with, request.user and the pending-login marker as the handler found them,
\* whether the submitted form validated, the user the user_logged_in signal
\* was sent for, the device the handler picked, and the response.
Request(view, method, s, user, marker, valid, signal, device, resp) ==
    [view |-> view, method |-> method, sess |-> s, user |-> user,
     marker |-> marker, valid |-> valid, signal |-> signal,
     device |-> device, resp |-> resp]

Tables == [totp |-> totp, static |-> static, tokens |-> tokens]

-----------------------------------------------------------------------------
(* Queries on the tables *)

totpdevice_set(devs, user) == {d \in devs : d.user = user}
Unconfirmed(devs, user) == {d \in totpdevice_set(devs, user) : ~d.confirmed}
Confirmed(devs, user) == {d \in totpdevice_set(devs, user) : d.confirmed}

\* QuerySet.first() of an unordered queryset orders by primary key.
first(rows) == CHOOSE d \in rows : \A e \in rows : d.id <= e.id

-----------------------------------------------------------------------------
(* The login flow around the views *)

\* django.contrib.auth.login, reached through DefaultAccountAdapter.login:
\* a session authenticated as another user is flushed, any other session
\* only has its key cycled and keeps its data.
django_login(sess, user) ==
    IF sess.auth # Anonymous /\ sess.auth # user
    THEN [auth |-> user, marker |-> NoMarker]
    ELSE [sess EXCEPT !.auth = user]

\* OTPAdapter.login (allauth_2fa/adapter.py): the login of a user with a
\* confirmed TOTP device is paused, the session keeps the user's id.
OTPAdapter_login(s, user) ==
    /\ user \in Users
    /\ IF Confirmed(totp, user) # {}
       THEN /\ session' = [session EXCEPT ![s].marker = user]
            /\ last' = Request("login", "POST", s, session[s].auth,
                               session[s].marker, TRUE, NoOne, 0,
                               redirect("two-factor-authenticate"))
       ELSE /\ session' = [session EXCEPT ![s] = django_login(session[s], user)]
            /\ last' = Request("login", "POST", s, session[s].auth,
                               session[s].marker, TRUE, user, 0,
                               redirect("LOGIN_REDIRECT_URL"))
    /\ prev' = Tables
    /\ UNCHANGED <<totp, nextDev, static, tokens, nextTok, creq, uri>>

\* Logging out flushes the session.
account_logout(s) ==
    /\ session[s] # [auth |-> Anonymous, marker |-> NoMarker]
    /\ session' = [session EXCEPT ![s] = [auth |-> Anonymous, marker |-> NoMarker]]
    /\ last' = Request("logout", "POST", s, session[s].auth,
                       session[s].marker, FALSE, NoOne, 0, redirect("/"))
    /\ prev' = Tables
    /\ UNCHANGED <<totp, nextDev, static, tokens, nextTok, creq, uri>>

-----------------------------------------------------------------------------
(* TwoFactorAuthenticate *)

\* Mutant: the marker is not checked.
TwoFactorAuthenticate_dispatch_nocheck(sess) == PassOn

TwoFactorAuthenticate_dispatch(sess) ==
    IF sess.marker = NoMarker THEN redirect("account_login") ELSE PassOn

\* kwargs['user']: the user whose id the session holds.
TwoFactorAuthenticate_get_form_kwargs(sess) == sess.marker

\* form_valid: log form.user in, send user_logged_in, redirect.
TwoFactorAuthenticate_form_valid(s, method, formUser) ==
    /\ session' = [session EXCEPT ![s] = django_login(session[s], formUser)]
    /\ last' = Request("authenticate", method, s, session[s].auth,
                       session[s].marker, TRUE, formUser, 0,
                       redirect("LOGIN_REDIRECT_URL"))

\* One request to the authenticate page; valid: the submitted token
\* verified against a device of the user the form was built for.
TwoFactorAuthenticate(s, method, valid) ==
    LET sess == session[s]
        d == TwoFactorAuthenticate_dispatch(sess)
    IN
    /\ method = "GET" => ~valid
    /\ IF d # PassOn
       THEN /\ session' = session
            /\ last' = Request("authenticate", method, s, sess.auth,
                               sess.marker, valid, NoOne, 0, d)
       ELSE IF method = "POST" /\ valid
       THEN TwoFactorAuthenticate_form_valid(
                s, method, TwoFactorAuthenticate_get_form_kwargs(sess))
       ELSE /\ session' = session
            /\ last' = Request("authenticate", method, s, sess.auth,
                               sess.marker, valid, NoOne, 0,
                               render("allauth_2fa/authenticate.html"))
    /\ prev' = Tables
    /\ UNCHANGED <<totp, nextDev, static, tokens, nextTok, creq, uri>>

-----------------------------------------------------------------------------
(* TwoFactorSetup *)

\* Mutant: a user with a confirmed device is let through.
TwoFactorSetup_dispatch_noconfirmed(user, devs, path) ==
    IF is_anonymous(user) THEN redirect_to_login(path) ELSE PassOn

TwoFactorSetup_dispatch(user, devs, path) ==
    IF is_anonymous(user) THEN redirect_to_login(path)
    ELSE IF Confirmed(devs, user) # {}
    THEN redirect("two-factor-backup-tokens")
    ELSE PassOn

\* Mutant: the delete forgets the user and removes every unconfirmed device.
new_device_delete_everyone(devs, user) == {d \in devs : d.confirmed}

\* The two statements of _new_device.
new_device_delete(devs, user) == devs \ Unconfirmed(devs, user)
new_device_create(devs, user, pk) ==
    devs \cup {[id |-> pk, user |-> user, confirmed |-> FALSE]}

\* Mutant: the earlier unconfirmed devices are kept.
new_device_nodelete(devs, user, pk) ==
    devs \cup {[id |-> pk, user |-> user, confirmed |-> FALSE]}

new_device(devs, user, pk) ==
    new_device_create(new_device_delete(devs, user), user, pk)

\* TOTPDeviceForm.save (allauth_2fa/forms.py): confirm the user's
\* unconfirmed device.
TOTPDeviceForm_save(devs, user) ==
    LET d == first(Unconfirmed(devs, user))
    IN (devs \ {d}) \cup {[d EXCEPT !.confirmed = TRUE]}

\* One request to the setup page. A submitted code can only validate against
\* an unconfirmed device of the user; any other POST is an invalid form.
TwoFactorSetup(s, method, valid) ==
    LET user == session[s].auth
        d == TwoFactorSetup_dispatch(user, totp, SetupPath)
        req(v, dev, resp) == Request("setup", method, s, user,
                                     session[s].marker, v, NoOne, dev, resp)
    IN
    /\ method = "GET" => ~valid
    /\ valid => Unconfirmed(totp, user) # {}
    /\ IF d # PassOn
       THEN /\ UNCHANGED <<totp, nextDev>>
            /\ last' = req(valid, 0, d)
       ELSE IF method = "POST" /\ valid
       THEN \* form_valid
            /\ totp' = TOTPDeviceForm_save(totp, user)
            /\ UNCHANGED nextDev
            /\ last' = req(TRUE, first(Unconfirmed(totp, user)).id,
                           redirect("two-factor-backup-tokens"))
       ELSE \* get, form_invalid
            /\ nextDev <= MaxDev
            /\ totp' = new_device(totp, user, nextDev)
            /\ nextDev' = nextDev + 1
            /\ last' = req(FALSE, nextDev, render("allauth_2fa/setup.html"))
    /\ prev' = Tables
    /\ UNCHANGED <<session, static, tokens, nextTok, creq, uri>>

-----------------------------------------------------------------------------
(* TwoFactorRemove *)

TwoFactorRemove_dispatch(user, devs, path) ==
    IF is_anonymous(user) THEN redirect_to_login(path)
    ELSE IF totpdevice_set(devs, user) # {} THEN PassOn
    ELSE redirect("two-factor-setup")

\* TOTPDeviceRemoveForm.save (allauth_2fa/forms.py): delete the user's
\* TOTP devices.
TOTPDeviceRemoveForm_save(devs, user) == devs \ totpdevice_set(devs, user)

TwoFactorRemove(s, method, valid) ==
    LET user == session[s].auth
        d == TwoFactorRemove_dispatch(user, totp, RemovePath)
        req(resp) == Request("remove", method, s, user, session[s].marker,
                             valid, NoOne, 0, resp)
    IN
    /\ method = "GET" => ~valid
    /\ IF d # PassOn
       THEN /\ UNCHANGED totp
            /\ last' = req(d)
       ELSE IF method = "POST" /\ valid
       THEN /\ totp' = TOTPDeviceRemoveForm_save(totp, user)
            /\ last' = req(redirect("two-factor-setup"))
       ELSE /\ UNCHANGED totp
            /\ last' = req(render("allauth_2fa/remove.html"))
    /\ prev' = Tables
    /\ UNCHANGED <<session, nextDev, static, tokens, nextTok, creq, uri>>

-----------------------------------------------------------------------------
(* TwoFactorBackupTokens *)

NumTokens == 3

\* Mutant: the anonymous user is let through.
TwoFactorBackupTokens_dispatch_nocheck(user, path) == PassOn

TwoFactorBackupTokens_dispatch(user, path) ==
    IF is_anonymous(user) THEN redirect_to_login(path) ELSE PassOn

\* staticdevice_set.get_or_create(name='backup')
get_or_create(devices, user) ==
    devices \cup {[user |-> user, name |-> "backup"]}

token_set(toks, user) == {t \in toks : t.user = user}

\* Mutant: the old tokens are kept.
TwoFactorBackupTokens_post_keep(toks, user, pk) ==
    toks \cup {[id |-> pk + i, user |-> user] : i \in 0 .. 2}

\* post: delete the device's tokens, create NumTokens new ones.
TwoFactorBackupTokens_post(toks, user, pk) ==
    (toks \ token_set(toks, user))
        \cup {[id |-> pk + i, user |-> user] : i \in 0 .. (NumTokens - 1)}

TwoFactorBackupTokens(s, method) ==
    LET user == session[s].auth
        d == TwoFactorBackupTokens_dispatch(user, BackupPath)
        req(resp) == Request("backup", method, s, user, session[s].marker,
                             FALSE, NoOne, 0, resp)
    IN
    /\ IF d # PassOn
       THEN /\ UNCHANGED <<static, tokens, nextTok>>
            /\ last' = req(d)
       ELSE IF method = "POST"
       THEN /\ nextTok <= MaxRegen * NumTokens
            /\ static' = get_or_create(static, user)
            /\ tokens' = TwoFactorBackupTokens_post(tokens, user, nextTok)
            /\ nextTok' = nextTok + NumTokens
            /\ last' = req(render("allauth_2fa/backup_tokens.html"))
       ELSE \* get: get_context_data
            /\ static' = get_or_create(static, user)
            /\ UNCHANGED <<tokens, nextTok>>
            /\ last' = req(render("allauth_2fa/backup_tokens.html"))
    /\ prev' = Tables
    /\ UNCHANGED <<session, totp, nextDev, creq, uri>>

-----------------------------------------------------------------------------
(* QRCodeGeneratorView, as far as the tables and the response go *)

\* get: 404 for an anonymous user; device.bin_key of no device is an
\* AttributeError, which the framework answers with a server error.
QRCodeGeneratorView_get(user, devs) ==
    IF is_anonymous(user) THEN Http404
    ELSE IF Unconfirmed(devs, user) = {} THEN ServerError
    ELSE render("image/svg+xml; charset=utf-8")

QRCodeGeneratorView(s) ==
    LET user == session[s].auth
        resp == QRCodeGeneratorView_get(user, totp)
        dev == IF Unconfirmed(totp, user) = {} THEN 0
               ELSE first(Unconfirmed(totp, user)).id
    IN
    /\ last' = Request("qr", "GET", s, user, session[s].marker, FALSE,
                       NoOne, dev, resp)
    /\ prev' = Tables
    /\ UNCHANGED <<session, totp, nextDev, static, tokens, nextTok, creq, uri>>

-----------------------------------------------------------------------------
(* Spec: requests handled one after the other *)

Methods == {"GET", "POST"}
Procs == {"r1", "r2"}
ConcIdle == [p \in Procs |-> [pc |-> "idle", method |-> "GET", n |-> 0]]
NoURI == [issuer |-> <<>>, username |-> <<>>, bin_key |-> <<>>, digits |-> 6,
          done |-> TRUE, url |-> <<>>]

Init ==
    /\ session = [s \in Sessions |-> [auth |-> Anonymous, marker |-> NoMarker]]
    /\ totp = {}
    /\ nextDev = 1
    /\ static = {}
    /\ tokens = {}
    /\ nextTok = 1
    /\ last = Request("none", "GET", "s1", Anonymous, NoMarker, FALSE,
                      NoOne, 0, PassOn)
    /\ prev = Tables
    /\ creq = ConcIdle
    /\ uri = NoURI

Next ==
    \/ \E s \in Sessions, u \in Users : OTPAdapter_login(s, u)
    \/ \E s \in Sessions : account_logout(s)
    \/ \E s \in Sessions, m \in Methods, v \in BOOLEAN :
           TwoFactorAuthenticate(s, m, v)
    \/ \E s \in Sessions, m \in Methods, v \in BOOLEAN :
           TwoFactorSetup(s, m, v)
    \/ \E s \in Sessions, m \in Methods, v \in BOOLEAN :
           TwoFactorRemove(s, m, v)
    \/ \E s \in Sessions, m \in Methods : TwoFactorBackupTokens(s, m)
    \/ \E s \in Sessions : QRCodeGeneratorView(s)

Spec == Init /\ [][Next]_vars

-----------------------------------------------------------------------------
(* SpecConc: two workers handle setup requests (GET or a POST with a wrong  *)
(* code) of one authenticated user at the same time. Each query of         *)
(* _new_device is its own database statement, so the statements of the two *)
(* requests interleave.                                                    *)

ConcUser == "alice"

\* dispatch, then get or form_invalid: about to run _new_device.
Conc_dispatch(p, method) ==
    /\ creq[p].pc = "idle"
    /\ creq[p].n < MaxConcReq
    /\ TwoFactorSetup_dispatch(ConcUser, totp, SetupPath) = PassOn
    /\ creq' = [creq EXCEPT ![p] = [pc |-> "delete", method |-> method,
                                    n |-> creq[p].n]]
    /\ UNCHANGED <<session, totp, nextDev, static, tokens, nextTok, last,
                   prev, uri>>

\* totpdevice_set.filter(confirmed=False).delete()
Conc_delete(p) ==
    /\ creq[p].pc = "delete"
    /\ totp' = new_device_delete(totp, ConcUser)
    /\ creq' = [creq EXCEPT ![p].pc = "create"]
    /\ UNCHANGED <<session, nextDev, static, tokens, nextTok, last, prev, uri>>

\* TOTPDevice.objects.create(user=..., confirmed=False), then the response.
Conc_create(p) ==
    /\ creq[p].pc = "create"
    /\ totp' = new_device_create(totp, ConcUser, nextDev)
    /\ nextDev' = nextDev + 1
    /\ creq' = [creq EXCEPT ![p].pc = "idle", ![p].n = creq[p].n + 1]
    /\ UNCHANGED <<session, static, tokens, nextTok, last, prev, uri>>

InitConc ==
    /\ session = [s \in Sessions |-> [auth |-> ConcUser, marker |-> NoMarker]]
    /\ totp = {}
    /\ nextDev = 1
    /\ static = {}
    /\ tokens = {}
    /\ nextTok = 1
    /\ last = Request("none", "GET", "s1", Anonymous, NoMarker, FALSE,
                      NoOne, 0, PassOn)
    /\ prev = Tables
    /\ creq = ConcIdle
    /\ uri = NoURI

NextConc ==
    \/ \E p \in Procs, m \in Methods : Conc_dispatch(p, m)
    \/ \E p \in Procs : Conc_delete(p)
    \/ \E p \in Procs : Conc_create(p)

SpecConc == InitConc /\ [][NextConc]_vars

-----------------------------------------------------------------------------
(* SpecURI: the otpauth:// URI of QRCodeGeneratorView.get. A string is the  *)
(* sequence of its characters; a key is a sequence of bytes.               *)

Letters ==
    {"a", "b", "c", "d", "e", "f", "g", "h", "i", "j", "k", "l", "m", "n",
     "o", "p", "q", "r", "s", "t", "u", "v", "w", "x", "y", "z",
     "A", "B", "C", "D", "E", "F", "G", "H", "I", "J", "K", "L", "M", "N",
     "O", "P", "Q", "R", "S", "T", "U", "V", "W", "X", "Y", "Z"}
Digits == {"0", "1", "2", "3", "4", "5", "6", "7", "8", "9"}

\* urllib: the characters quote never encodes.
always_safe == Letters \cup Digits \cup {"_", ".", "-"}

\* ord() of the other ASCII characters the model draws from.
ord(c) ==
    CASE c = " " -> 32 [] c = "%" -> 37 [] c = "&" -> 38 [] c = "+" -> 43
      [] c = "/" -> 47 [] c = ":" -> 58 [] c = "=" -> 61 [] c = "?" -> 63

HexDigits ==
    <<"0", "1", "2", "3", "4", "5", "6", "7", "8", "9",
      "A", "B", "C", "D", "E", "F">>

\* '%{:02X}'.format(ord(c))
percent(c) == <<"%", HexDigits[(ord(c) \div 16) + 1], HexDigits[(ord(c) % 16) + 1]>>

RECURSIVE quote_from(_, _, _)
quote_from(s, safe, i) ==
    IF i > Len(s) THEN <<>>
    ELSE (IF s[i] \in always_safe \/ s[i] \in safe THEN <<s[i]>>
          ELSE percent(s[i]))
         \o quote_from(s, safe, i + 1)

\* urllib quote(s, safe)
quote(s, safe) == quote_from(s, safe, 1)

\* urllib quote_plus(s): quote with ' ' safe, then ' ' replaced by '+'.
quote_plus(s) ==
    LET q == quote(s, {" "})
    IN [i \in 1 .. Len(q) |-> IF q[i] = " " THEN "+" ELSE q[i]]

RECURSIVE urlencode(_)
\* urllib urlencode(pairs): k=v joined by '&', both quote_plus'ed.
urlencode(pairs) ==
    IF pairs = <<>> THEN <<>>
    ELSE quote_plus(pairs[1][1]) \o <<"=">> \o quote_plus(pairs[1][2])
         \o (IF Len(pairs) > 1 THEN <<"&">> ELSE <<>>)
         \o urlencode(Tail(pairs))

b32alphabet ==
    <<"A", "B", "C", "D", "E", "F", "G", "H", "I", "J", "K", "L", "M", "N",
      "O", "P", "Q", "R", "S", "T", "U", "V", "W", "X", "Y", "Z",
      "2", "3", "4", "5", "6", "7">>

\* The 8 bits of a byte, most significant first.
byte_bits(b) == [i \in 1 .. 8 |-> (b \div (2 ^ (8 - i))) % 2]

RECURSIVE bytes_bits(_)
bytes_bits(bs) ==
    IF bs = <<>> THEN <<>> ELSE byte_bits(Head(bs)) \o bytes_bits(Tail(bs))

\* base64.b32encode: the bytes padded with zeros to a multiple of 5, 8
\* characters for each 5 bytes, the characters of the padding replaced by '='.
b32encode(bs) ==
    LET leftover == Len(bs) % 5
        padded == IF leftover = 0 THEN bs
                  ELSE bs \o [i \in 1 .. (5 - leftover) |-> 0]
        bits == bytes_bits(padded)
        enc == [i \in 1 .. (Len(bits) \div 5) |->
                   b32alphabet[16 * bits[5 * i - 4] + 8 * bits[5 * i - 3]
                               + 4 * bits[5 * i - 2] + 2 * bits[5 * i - 1]
                               + bits[5 * i] + 1]]
        npad == CASE leftover = 0 -> 0 [] leftover = 1 -> 6
                  [] leftover = 2 -> 4 [] leftover = 3 -> 3
                  [] leftover = 4 -> 1
    IN [i \in 1 .. Len(enc) |-> IF i > Len(enc) - npad THEN "=" ELSE enc[i]]

\* TOTPDevice.get_digits_display(): the digits choice as text.
get_digits_display(d) == <<HexDigits[d + 1]>>
DigitChoices == {6, 8}

\* Mutant: the label is put into the URI unquoted.
otpauth_url_unquoted(issuer, username, bin_key, digits) ==
    <<"o", "t", "p", "a", "u", "t", "h", ":", "/", "/", "t", "o", "t", "p", "/">> \o (issuer \o <<":", " ">> \o username) \o <<"?">>
        \o urlencode(<< <<<<"s", "e", "c", "r", "e", "t">>, b32encode(bin_key)>>,
                        <<<<"d", "i", "g", "i", "t", "s">>, get_digits_display(digits)>>,
                        <<<<"i", "s", "s", "u", "e", "r">>, issuer>> >>)

\* 'otpauth://totp/{label}?{query}'.format(label=quote('{issuer}:
\* {username}'), query=urlencode((secret, digits, issuer)))
otpauth_url(issuer, username, bin_key, digits) ==
    <<"o", "t", "p", "a", "u", "t", "h", ":", "/", "/", "t", "o", "t", "p", "/">> \o quote(issuer \o <<":", " ">> \o username, {"/"}) \o <<"?">>
        \o urlencode(<< <<<<"s", "e", "c", "r", "e", "t">>, b32encode(bin_key)>>,
                        <<<<"d", "i", "g", "i", "t", "s">>, get_digits_display(digits)>>,
                        <<<<"i", "s", "s", "u", "e", "r">>, issuer>> >>)

\* The inputs: site names, usernames, device keys.
IssuerChars == {"a", " ", "&", "/"}
UsernameChars == {"?", "%"}
KeyBytes == {0, 255}

RECURSIVE SeqsUpTo(_, _)
SeqsUpTo(S, n) ==
    IF n = 0 THEN {<<>>}
    ELSE LET shorter == SeqsUpTo(S, n - 1)
         IN shorter \cup {Append(s, c) : s \in shorter, c \in S}

InitURI ==
    /\ session = [s \in Sessions |-> [auth |-> Anonymous, marker |-> NoMarker]]
    /\ totp = {}
    /\ nextDev = 1
    /\ static = {}
    /\ tokens = {}
    /\ nextTok = 1
    /\ last = Request("none", "GET", "s1", Anonymous, NoMarker, FALSE,
                      NoOne, 0, PassOn)
    /\ prev = Tables
    /\ creq = ConcIdle
    /\ \E i \in SeqsUpTo(IssuerChars, MaxStrLen),
          u \in SeqsUpTo(UsernameChars, MaxStrLen),
          k \in SeqsUpTo(KeyBytes, MaxKeyLen),
          d \in DigitChoices :
          uri = [issuer |-> i, username |-> u, bin_key |-> k, digits |-> d,
                 done |-> FALSE, url |-> <<>>]

\* get: build the URI for the user's unconfirmed device.
QRCodeGeneratorView_url ==
    /\ ~uri.done
    /\ uri' = [uri EXCEPT !.done = TRUE,
                          !.url = otpauth_url(uri.issuer, uri.username,
                                              uri.bin_key, uri.digits)]
    /\ UNCHANGED <<session, totp, nextDev, static, tokens, nextTok, last,
                   prev, creq>>

NextURI == QRCodeGeneratorView_url

SpecURI == InitURI /\ [][NextURI]_vars

-----------------------------------------------------------------------------
(* Claims checked under Spec *)

Ids(rows) == {r.id : r \in rows}
IsUser(u) == u \in Users

\* C1: on the authenticate view a user is logged in only by a POST whose
\* session held the pending-login marker and whose form validated, and that
\* user is the one the marker named; a request without the marker is
\* redirected to the login page and logs nobody in.
C1_LoginOnlyThroughMarker ==
    last.view = "authenticate" =>
        /\ last.signal # NoOne =>
              /\ last.marker # NoMarker
              /\ last.method = "POST" /\ last.valid
              /\ last.signal = last.marker
              /\ session[last.sess].auth = last.marker
        /\ last.marker = NoMarker =>
              /\ last.resp = [status |-> 302, location |-> "account_login",
                              next |-> "", template |-> ""]
              /\ last.signal = NoOne
        /\ last.signal = NoOne => session[last.sess].auth = last.user

C1_Witness ==
    /\ last.view = "authenticate"
    /\ last.signal = "bob"
    /\ last.user = "alice"
    /\ session[last.sess].auth = "bob"

\* C2: a request of an anonymous user to the setup, remove or backup-tokens
\* page is answered with a redirect to login that carries the requested
\* path, and changes no TOTP device, static device or token.
C2_AnonymousRedirected ==
    (last.view \in {"setup", "remove", "backup"} /\ last.user = Anonymous) =>
        /\ last.resp =
              [status |-> 302, location |-> "account_login",
               next |-> (CASE last.view = "setup" -> "/two-factor/setup"
                           [] last.view = "remove" -> "/two-factor/remove"
                           [] last.view = "backup" -> "/two-factor/backup-tokens"),
               template |-> ""]
        /\ Tables = prev

C2_Witness ==
    /\ last.view = "backup" /\ last.method = "POST"
    /\ last.user = Anonymous
    /\ totp # {} /\ static # {} /\ tokens # {}

\* C3: after a POST with a wrong code that reaches the setup form (an
\* authenticated user with no confirmed device) the user has exactly one
\* unconfirmed device, created by this request, no device has become
\* confirmed, and the form is rendered again (no redirect).
C3_WrongCodeRegenerates ==
    (/\ last.view = "setup" /\ last.method = "POST" /\ ~last.valid
     /\ IsUser(last.user) /\ Confirmed(prev.totp, last.user) = {}) =>
        /\ Cardinality(Unconfirmed(totp, last.user)) = 1
        /\ Ids(Unconfirmed(totp, last.user)) \cap Ids(prev.totp) = {}
        /\ {d \in totp : d.confirmed} = {d \in prev.totp : d.confirmed}
        /\ last.resp.status = 200
        /\ last.resp.template = "allauth_2fa/setup.html"

C3_Witness ==
    /\ last.view = "setup" /\ last.method = "POST" /\ ~last.valid
    /\ IsUser(last.user) /\ Confirmed(prev.totp, last.user) = {}
    /\ Unconfirmed(prev.totp, last.user) # {}

\* C4: a GET of the QR code by an authenticated user with no unconfirmed
\* device is answered with not-found and creates no device.
C4_MissingDeviceNotFound ==
    (/\ last.view = "qr" /\ IsUser(last.user)
     /\ Unconfirmed(prev.totp, last.user) = {}) =>
        /\ last.resp.status = 404
        /\ totp = prev.totp

\* C6: every user has at most one unconfirmed device; after a setup GET or
\* invalid POST of an authenticated user with no confirmed device the user
\* has exactly one, the one this request created, none of the user's earlier
\* unconfirmed devices is left, and the other users' devices are as before.
C6_OneUnconfirmedDevice ==
    /\ \A u \in Users : Cardinality(Unconfirmed(totp, u)) <= 1
    /\ (/\ last.view = "setup" /\ ~last.valid
        /\ IsUser(last.user) /\ Confirmed(prev.totp, last.user) = {}) =>
           /\ Ids(Unconfirmed(totp, last.user)) = {last.device}
           /\ last.device \notin Ids(prev.totp)
           /\ Ids(Unconfirmed(prev.totp, last.user)) \cap Ids(totp) = {}
           /\ \A v \in Users \ {last.user} :
                  totpdevice_set(totp, v) = totpdevice_set(prev.totp, v)

C6_Witness ==
    /\ last.view = "setup" /\ last.method = "GET"
    /\ IsUser(last.user)
    /\ Unconfirmed(prev.totp, last.user) # {}
    /\ \E v \in Users \ {last.user} : Unconfirmed(totp, v) # {}

\* C7: a setup request of a user who has a confirmed device is redirected to
\* the backup-tokens page and changes no device; no user ever has more than
\* one confirmed device; a successful confirmation redirects to the
\* backup-tokens page.
C7_ConfirmedUserRedirected ==
    /\ (/\ last.view = "setup" /\ IsUser(last.user)
        /\ Confirmed(prev.totp, last.user) # {}) =>
           /\ last.resp = [status |-> 302,
                           location |-> "two-factor-backup-tokens",
                           next |-> "", template |-> ""]
           /\ totp = prev.totp
    /\ \A u \in Users : Cardinality(Confirmed(totp, u)) <= 1
    /\ (/\ last.view = "setup" /\ last.valid /\ IsUser(last.user)
        /\ Confirmed(prev.totp, last.user) = {}) =>
           /\ last.resp.status = 302
           /\ last.resp.location = "two-factor-backup-tokens"
           /\ Ids(Confirmed(totp, last.user)) = {last.device}

C7_Witness ==
    /\ last.view = "setup" /\ last.method = "POST"
    /\ IsUser(last.user)
    /\ Confirmed(prev.totp, last.user) # {}
    /\ \E v \in Users \ {last.user} : Unconfirmed(totp, v) # {}

\* C8: after a backup-tokens POST of an authenticated user the user's
\* 'backup' device holds exactly 3 tokens, all created by this POST; a GET
\* creates the device if it is missing and no token; neither changes the
\* tokens of another user.
C8_BackupTokensRegenerated ==
    (last.view = "backup" /\ IsUser(last.user)) =>
        /\ [user |-> last.user, name |-> "backup"] \in static
        /\ static = prev.static \cup {[user |-> last.user, name |-> "backup"]}
        /\ \A v \in Users \ {last.user} :
               token_set(tokens, v) = token_set(prev.tokens, v)
        /\ last.method = "POST" =>
               /\ Cardinality(token_set(tokens, last.user)) = 3
               /\ Ids(token_set(tokens, last.user)) \cap Ids(prev.tokens) = {}
               /\ token_set(prev.tokens, last.user) \cap tokens = {}
        /\ last.method = "GET" => tokens = prev.tokens

C8_Witness ==
    /\ last.view = "backup" /\ last.method = "POST"
    /\ IsUser(last.user)
    /\ token_set(prev.tokens, last.user) # {}
    /\ \E v \in Users \ {last.user} : token_set(tokens, v) # {}

\* C10: once the authenticate view has completed a login the session no
\* longer holds the pending-login marker.
C10_MarkerClearedAfterLogin ==
    (last.view = "authenticate" /\ last.signal # NoOne) =>
        session[last.sess].marker = NoMarker

-----------------------------------------------------------------------------
(* Claims checked under SpecURI *)

\* Decoders, written independently of the encoders above.
Encodable == {" ", "%", "&", "+", "/", ":", "=", "?"}
IsHex(h) == \E n \in 1 .. 16 : HexDigits[n] = h
HexVal(h) == (CHOOSE n \in 1 .. 16 : HexDigits[n] = h) - 1
IsEscape(s, i) ==
    /\ i + 2 <= Len(s) /\ s[i] = "%" /\ IsHex(s[i + 1]) /\ IsHex(s[i + 2])
    /\ \E c \in Encodable : ord(c) = 16 * HexVal(s[i + 1]) + HexVal(s[i + 2])

RECURSIVE unquote_from(_, _)
unquote_from(s, i) ==
    IF i > Len(s) THEN <<>>
    ELSE IF IsEscape(s, i)
    THEN <<CHOOSE c \in Encodable :
               ord(c) = 16 * HexVal(s[i + 1]) + HexVal(s[i + 2])>>
         \o unquote_from(s, i + 3)
    ELSE <<s[i]>> \o unquote_from(s, i + 1)

unquote(s) == unquote_from(s, 1)

unquote_plus(s) == unquote([i \in 1 .. Len(s) |-> IF s[i] = "+" THEN " " ELSE s[i]])

IndexOf(s, c) ==
    IF \E i \in 1 .. Len(s) : s[i] = c
    THEN CHOOSE i \in 1 .. Len(s) : s[i] = c /\ \A j \in 1 .. (i - 1) : s[j] # c
    ELSE 0

RECURSIVE Split(_, _)
Split(s, c) ==
    IF IndexOf(s, c) = 0 THEN <<s>>
    ELSE <<SubSeq(s, 1, IndexOf(s, c) - 1)>>
         \o Split(SubSeq(s, IndexOf(s, c) + 1, Len(s)), c)

ParamName(p) == SubSeq(p, 1, IndexOf(p, "=") - 1)
ParamValue(p) == SubSeq(p, IndexOf(p, "=") + 1, Len(p))

IsB32Char(c) == \E i \in 1 .. 32 : b32alphabet[i] = c
IsBase32(s) ==
    /\ Len(s) % 8 = 0
    /\ \E n \in 0 .. Len(s) :
          /\ \A i \in 1 .. n : IsB32Char(s[i])
          /\ \A i \in (n + 1) .. Len(s) : s[i] = "="
          /\ (Len(s) - n) \in {0, 1, 3, 4, 6}

b32decode(s) ==
    LET data == SelectSeq(s, IsB32Char)
        vals == [k \in 1 .. Len(data) |->
                    (CHOOSE i \in 1 .. 32 : b32alphabet[i] = data[k]) - 1]
        bits == [k \in 1 .. (5 * Len(data)) |->
                    (vals[((k - 1) \div 5) + 1] \div (2 ^ (4 - ((k - 1) % 5)))) % 2]
    IN [i \in 1 .. ((5 * Len(data)) \div 8) |->
           128 * bits[8 * i - 7] + 64 * bits[8 * i - 6] + 32 * bits[8 * i - 5]
           + 16 * bits[8 * i - 4] + 8 * bits[8 * i - 3] + 4 * bits[8 * i - 2]
           + 2 * bits[8 * i - 1] + bits[8 * i]]

UriPrefix == <<"o", "t", "p", "a", "u", "t", "h", ":", "/", "/", "t", "o", "t", "p", "/">>

\* C5 (as stated): the URI is the text
\* otpauth://totp/{issuer}: {username}?secret=S&digits=D&issuer={issuer}
\* with the issuer, the username and the base32 secret S put in as they are.
C5_UriLiteralForm ==
    uri.done =>
        uri.url = UriPrefix \o uri.issuer \o <<":", " ">> \o uri.username
                  \o <<"?", "s", "e", "c", "r", "e", "t", "=">> \o b32encode(uri.bin_key)
                  \o <<"&", "d", "i", "g", "i", "t", "s", "=">> \o get_digits_display(uri.digits)
                  \o <<"&", "i", "s", "s", "u", "e", "r", "=">> \o uri.issuer

\* C5 (amended): the URI is otpauth://totp/ L ? secret=S' & digits=D &
\* issuer=I' with exactly these three parameters in this order, where
\* percent-decoding L gives '{issuer}: {username}', form-decoding S' gives
\* well-formed base32 text that decodes to the device key, D is the digit
\* count, and form-decoding I' gives the issuer used in the label.
C5_UriDecodes ==
    uri.done =>
        LET url == uri.url
            rest == SubSeq(url, Len(UriPrefix) + 1, Len(url))
            q == IndexOf(rest, "?")
            label == SubSeq(rest, 1, q - 1)
            params == Split(SubSeq(rest, q + 1, Len(rest)), "&")
        IN /\ Len(url) >= Len(UriPrefix)
           /\ SubSeq(url, 1, Len(UriPrefix)) = UriPrefix
           /\ q > 0
           /\ unquote(label) = uri.issuer \o <<":", " ">> \o uri.username
           /\ Len(params) = 3
           /\ ParamName(params[1]) = <<"s", "e", "c", "r", "e", "t">>
           /\ ParamName(params[2]) = <<"d", "i", "g", "i", "t", "s">>
           /\ ParamName(params[3]) = <<"i", "s", "s", "u", "e", "r">>
           /\ IsBase32(unquote_plus(ParamValue(params[1])))
           /\ b32decode(unquote_plus(ParamValue(params[1]))) = uri.bin_key
           /\ \/ uri.digits = 6 /\ ParamValue(params[2]) = <<"6">>
              \/ uri.digits = 8 /\ ParamValue(params[2]) = <<"8">>
           /\ unquote_plus(ParamValue(params[3])) = uri.issuer

C5_Witness ==
    /\ uri.done
    /\ uri.issuer = <<" ", "&">>
    /\ uri.username = <<"?", "%">>
    /\ uri.bin_key = <<255, 0>>
    /\ uri.digits = 8

-----------------------------------------------------------------------------
(* Claims checked under SpecConc *)

ConcQuiet == \A p \in Procs : creq[p].pc = "idle" /\ creq[p].n >= 1

\* C9: when concurrent setup requests of one user have all finished, the
\* user has exactly one unconfirmed device.
C9_OneUnconfirmedAfterRace ==
    ConcQuiet => Cardinality(Unconfirmed(totp, ConcUser)) = 1

====
